---- MODULE Spec2Model ----
(***************************************************************************)
(* Model of src/src/backend/routers/announcements.py: the announcements    *)
(* router of the High School Management System API.                        *)
(*                                                                         *)
(* A Python str holding a date is a TLA+ string; Chars gives its           *)
(* characters, so that the string comparisons of get_announcements and of  *)
(* the store's sort, and the parsing of datetime.strptime, are computed    *)
(* and not assumed.  The text of an announcement id is an integer: n >= 1  *)
(* is the 24-digit hexadecimal text of the n-th ObjectId the store         *)
(* generated, 0 is a text that bson.ObjectId rejects.                      *)
(*                                                                         *)
(* The handlers are plain def endpoints, which FastAPI runs in worker      *)
(* threads: requests overlap, and every call on the announcements store is *)
(* one step.  get_announcements, get_all_announcements, create_announcement*)
(* and delete_announcement make one such call; update_announcement makes   *)
(* up to three (find_one, update_one $unset, update_one $set) and other    *)
(* requests run between them.                                              *)
(***************************************************************************)
EXTENDS Integers, Sequences, FiniteSets, Bags, TLC

\* Number of insert_one calls a behaviour may make.
MaxCreates == 2
\* Number of update requests that may be in flight at once.
NumProcs == 2

\* Python's None, of the same sort as a str so that the two compare; no
\* date text equals it.
None == "None"

\* The date texts of the requests and of the clock.
May31 == "2024-05-31"
June01 == "2024-06-01"
June15 == "2024-06-15"
June30 == "2024-06-30"
\* Neither a month 13 nor a day 40 exists.
BadDate == "2024-13-40"
\* The empty str, as in the query ?start_date=
Empty == ""

\* The characters of a date text.
Chars(s) ==
  CASE s = May31 -> <<"2", "0", "2", "4", "-", "0", "5", "-", "3", "1">>
    [] s = June01 -> <<"2", "0", "2", "4", "-", "0", "6", "-", "0", "1">>
    [] s = June15 -> <<"2", "0", "2", "4", "-", "0", "6", "-", "1", "5">>
    [] s = June30 -> <<"2", "0", "2", "4", "-", "0", "6", "-", "3", "0">>
    [] s = BadDate -> <<"2", "0", "2", "4", "-", "1", "3", "-", "4", "0">>
    [] s = Empty -> <<>>

\* ------------------------------------------------------------------ str

Digits == {"0", "1", "2", "3", "4", "5", "6", "7", "8", "9"}
NonZero == Digits \ {"0"}

\* ord(c) for the characters of a date text.
Ord(c) ==
  CASE c = " " -> 32 [] c = "-" -> 45
    [] c = "0" -> 48 [] c = "1" -> 49 [] c = "2" -> 50 [] c = "3" -> 51
    [] c = "4" -> 52 [] c = "5" -> 53 [] c = "6" -> 54 [] c = "7" -> 55
    [] c = "8" -> 56 [] c = "9" -> 57

Min2(a, b) == IF a < b THEN a ELSE b

\* Python's a < b on str: code point order at the first difference, a
\* proper prefix is smaller.
StrLess(a, b) ==
  LET ca == Chars(a)
      cb == Chars(b)
      n == Min2(Len(ca), Len(cb))
      diff == {i \in 1..n : ca[i] # cb[i]}
  IN IF diff = {} THEN Len(ca) < Len(cb)
     ELSE LET k == CHOOSE i \in diff : \A j \in diff : i <= j
          IN Ord(ca[k]) < Ord(cb[k])

\* The date texts of the model, and StrLess on them, computed once.
DateTexts == {May31, June01, June15, June30, BadDate, Empty}
Less == [a \in DateTexts, b \in DateTexts |-> StrLess(a, b)]

\* Python's a < b and a <= b on the date texts.
Lt(a, b) == Less[a, b]
Le(a, b) == a = b \/ Less[a, b]

\* bool(s) of an Optional[str]: None and "" are falsy.
Truthy(s) == s # None /\ s # ""

\* ------------------------------------------------------------- strptime

\* The character of the sequence s at position i, "" past the end.
At(s, i) == IF i >= 1 /\ i <= Len(s) THEN s[i] ELSE ""

\* Length matched by %m, (1[0-2]|0[1-9]|[1-9]), at position p; 0: no match.
\* The directive is followed by a literal "-", so the shorter alternative
\* never rescues a match the longer one began.
MonthLen(s, p) ==
  IF At(s, p) = "1" /\ At(s, p + 1) \in {"0", "1", "2"} THEN 2
  ELSE IF At(s, p) = "0" /\ At(s, p + 1) \in NonZero THEN 2
  ELSE IF At(s, p) \in NonZero THEN 1
  ELSE 0

\* Length matched by %d, (3[0-1]|[1-2]\d|0[1-9]|[1-9]| [1-9]), at p.
DayLen(s, p) ==
  IF At(s, p) = "3" /\ At(s, p + 1) \in {"0", "1"} THEN 2
  ELSE IF At(s, p) \in {"1", "2"} /\ At(s, p + 1) \in Digits THEN 2
  ELSE IF At(s, p) = "0" /\ At(s, p + 1) \in NonZero THEN 2
  ELSE IF At(s, p) \in NonZero THEN 1
  ELSE IF At(s, p) = " " /\ At(s, p + 1) \in NonZero THEN 2
  ELSE 0

\* int() of the digits of s at positions p .. p+n-1 (a leading blank is 0).
RECURSIVE IntAt(_, _, _)
IntAt(s, p, n) ==
  IF n = 0 THEN 0
  ELSE 10 * IntAt(s, p, n - 1)
       + (IF s[p + n - 1] = " " THEN 0 ELSE Ord(s[p + n - 1]) - 48)

IsLeap(y) == y % 4 = 0 /\ (y % 100 # 0 \/ y % 400 = 0)

DaysInMonth(y, m) ==
  IF m = 2 THEN (IF IsLeap(y) THEN 29 ELSE 28)
  ELSE IF m \in {4, 6, 9, 11} THEN 30 ELSE 31

\* datetime.strptime(s, "%Y-%m-%d") returns (TRUE) or raises ValueError
\* (FALSE): the text must match \d\d\d\d-%m-%d with nothing left over, and
\* the three numbers must make a date of the calendar, year 1 at least.
StrptimeOk(text) ==
  LET s == Chars(text) IN
  /\ \A i \in 1..4 : At(s, i) \in Digits
  /\ At(s, 5) = "-"
  /\ LET ml == MonthLen(s, 6)
     IN /\ ml > 0
        /\ At(s, 6 + ml) = "-"
        /\ LET dp == 7 + ml
               dl == DayLen(s, dp)
           IN /\ dl > 0
              /\ Len(s) = dp + dl - 1
              /\ LET y == IntAt(s, 1, 4)
                     m == IntAt(s, 6, ml)
                     d == IntAt(s, dp, dl)
                 IN y >= 1 /\ d >= 1 /\ d <= DaysInMonth(y, m)

\* StrptimeOk on the date texts of the model, computed once.
Parses == [text \in DateTexts |-> StrptimeOk(text)]

\* ---------------------------------------------------------------- inputs

\* teachers_collection: the teacher directory, read and never written here.
teachers_collection == {"t1", "t2"}

\* The username of a request: a teacher or not.  Announcements are created
\* as t2 or as nobody and read, updated and deleted as t1 or as nobody.
TeacherInputs == {"t1", "nobody"}
CreateTeacherInputs == {"t2", "nobody"}

\* An announcement is created with one message and expiration_date and
\* updated to another.
CreateMessages == {"M1"}
UpdateMessages == {"M2"}

\* The expiration_date and start_date of a request: both well formed, or
\* one of them malformed; start_date omitted (None), empty or given.
CreateDateInputs ==
  { <<June01, None>>, <<June01, Empty>>, <<June01, June01>>,
    <<June01, BadDate>>, <<BadDate, None>> }
UpdateDateInputs ==
  { <<June30, None>>, <<June30, June01>>, <<June30, BadDate>>,
    <<BadDate, None>> }

\* Values of datetime.now().strftime("%Y-%m-%d").
Todays == {May31, June01, June15}

\* Texts of announcement ids: 0 is malformed, and n >= 1 has no record
\* before the n-th create and after its delete.
IdInputs == 0..MaxCreates

\* The announcement id and the username of an update or a delete: a teacher
\* with any id; somebody else with a malformed id, or with the first id,
\* whether it has a record or not.
IdTeacherInputs ==
  {<<id, "t1">> : id \in IdInputs} \cup {<<0, "nobody">>, <<1, "nobody">>}

\* ----------------------------------------------------------------- state

VARIABLES
  announcements_collection, \* the stored documents, in natural order
  nextId,                   \* the next ObjectId the store generates
  last,                     \* the answer the latest step gave, NoRequest
                            \* when it gave none
  upd,                      \* the update requests in flight, a bag
  serial                    \* SpecC: <<id, content>> pairs that complete
                            \* creates and updates, in some order, produce

vars == <<announcements_collection, nextId, last, upd, serial>>

\* An update request between two of its calls on the store: the call it
\* makes next, its arguments, and of the announcement its find_one returned
\* what the handler reads afterwards.
InFlight(pc, announcement_id, message, expiration_date, teacher_username, start_date, announcement) ==
  [pc |-> pc, id |-> announcement_id, message |-> message,
   expiration_date |-> expiration_date, start_date |-> start_date,
   teacher |-> teacher_username, announcement |-> announcement]

NoRequest ==
  [op |-> "none", teacher |-> "", id |-> -1, today |-> None, status |-> 0,
   body |-> <<>>]

Init ==
  /\ announcements_collection = <<>>
  /\ nextId = 1
  /\ last = NoRequest
  /\ upd = EmptyBag
  /\ serial = {}

\* ----------------------------------------------------------------- store

\* dict.get(key): the value, None when the key is absent.
Get(doc, key) == IF key \in DOMAIN doc THEN doc[key] ELSE None

\* Position of the first document of coll whose _id is oid, 0 when none.
FindIndex(coll, oid) ==
  LET hits == {i \in 1..Len(coll) : coll[i]["_id"] = oid}
  IN IF hits = {} THEN 0 ELSE CHOOSE i \in hits : \A j \in hits : i <= j

\* ObjectId(text) does not raise: the text is 24 hexadecimal digits.
ObjectIdOk(announcement_id) == announcement_id # 0

\* ObjectId(text), and str(oid): the n-th ObjectId and its text.
ObjectId(announcement_id) == announcement_id
StrOfId(oid) == oid

\* insert_one: the store gives the document the next ObjectId and appends
\* it.
InsertOne(coll, doc, oid) == Append(coll, doc @@ ("_id" :> oid))

\* SetFields as a replacement of the document by the fields.
SetFields_Replace(doc, fields) == fields @@ ("_id" :> doc["_id"])

\* The document after {"$set": fields}.
SetFields(doc, fields) ==
  [k \in DOMAIN doc \cup DOMAIN fields |->
     IF k \in DOMAIN fields THEN fields[k] ELSE doc[k]]

\* The document after {"$unset": {key: ""}}.
UnsetField(doc, key) == [k \in DOMAIN doc \ {key} |-> doc[k]]

\* update_one({"_id": oid}, change): change is applied to the first match.
UpdateOne(coll, oid, changed) ==
  LET i == FindIndex(coll, oid)
  IN IF i = 0
     THEN [coll |-> coll, matched_count |-> 0, modified_count |-> 0]
     ELSE [coll |-> [coll EXCEPT ![i] = changed],
           matched_count |-> 1,
           modified_count |-> IF changed = coll[i] THEN 0 ELSE 1]

UpdateOneSet(coll, oid, fields) ==
  LET i == FindIndex(coll, oid)
  IN UpdateOne(coll, oid, IF i = 0 THEN <<>> ELSE SetFields(coll[i], fields))

UpdateOneUnset(coll, oid, key) ==
  LET i == FindIndex(coll, oid)
  IN UpdateOne(coll, oid, IF i = 0 THEN <<>> ELSE UnsetField(coll[i], key))

\* DeleteOne with an empty filter: the first document is removed.
DeleteOne_NoFilter(coll, oid) ==
  IF coll = <<>> THEN [coll |-> coll, deleted_count |-> 0]
  ELSE [coll |-> Tail(coll), deleted_count |-> 1]

\* delete_one({"_id": oid}): the first match is removed.
DeleteOne(coll, oid) ==
  LET i == FindIndex(coll, oid)
  IN IF i = 0 THEN [coll |-> coll, deleted_count |-> 0]
     ELSE [coll |-> [j \in 1..(Len(coll) - 1) |->
                       IF j < i THEN coll[j] ELSE coll[j + 1]],
           deleted_count |-> 1]

\* ------------------------------------------------------------- responses

\* The dict a handler returns for a stored announcement.
Response(announcement) ==
  [id |-> StrOfId(announcement["_id"]),
   message |-> announcement["message"],
   start_date |-> Get(announcement, "start_date"),
   expiration_date |-> announcement["expiration_date"],
   created_by |-> Get(announcement, "created_by")]

Respond(op, teacher, id, today, status, body) ==
  last' = [op |-> op, teacher |-> teacher, id |-> id, today |-> today,
           status |-> status, body |-> body]

\* teachers_collection.find_one({"_id": teacher_username}) is not None.
Authenticated(teacher_username) == teacher_username \in teachers_collection

\* The try block that validates the two dates does not raise.
DatesOk(expiration_date, start_date) ==
  /\ Parses[expiration_date]
  /\ Truthy(start_date) => Parses[start_date]

\* -------------------------------------------------------------- handlers

\* IsActive with the expiration day itself taken as expired.
IsActive_ExpiryExclusive(announcement, current_date) ==
  LET start_date == Get(announcement, "start_date")
      expiration_date == Get(announcement, "expiration_date")
  IN /\ ~(Truthy(start_date) /\ Lt(current_date, start_date))
     /\ Lt(current_date, expiration_date)

\* get_announcements, the test of one announcement: active on current_date.
IsActive(announcement, current_date) ==
  LET start_date == Get(announcement, "start_date")
      expiration_date == Get(announcement, "expiration_date")
  IN /\ ~(Truthy(start_date) /\ Lt(current_date, start_date))
     /\ Le(current_date, expiration_date)

\* The responses for the documents of coll that pass the test, in the
\* order of coll.
RECURSIVE ActiveOf(_, _)
ActiveOf(coll, current_date) ==
  IF coll = <<>> THEN <<>>
  ELSE LET rest == ActiveOf(Tail(coll), current_date)
       IN IF IsActive(Head(coll), current_date)
          THEN <<Response(Head(coll))>> \o rest
          ELSE rest

get_announcements(current_date) ==
  /\ Respond("list_active", "", -1, current_date, 200,
             ActiveOf(announcements_collection, current_date))
  /\ UNCHANGED <<announcements_collection, nextId>>

\* SortedDescending with the direction of the sort reversed.
SortedDescending_Ascending(coll, order) ==
  \A i, j \in 1..Len(coll) :
    i < j => ~Lt(coll[order[j]]["expiration_date"],
                 coll[order[i]]["expiration_date"])

\* sort("expiration_date", -1) may return the documents in the order
\* order[1], order[2], ...: no document comes before one with a greater
\* expiration_date.  The order of equal keys is the store's choice.
SortedDescending(coll, order) ==
  \A i, j \in 1..Len(coll) :
    i < j => ~Lt(coll[order[i]]["expiration_date"],
                 coll[order[j]]["expiration_date"])

get_all_announcements(teacher_username) ==
  /\ IF ~Authenticated(teacher_username)
     THEN Respond("list_all", teacher_username, -1, None, 401,
                  "Authentication required")
     ELSE \E order \in Permutations(1..Len(announcements_collection)) :
            /\ SortedDescending(announcements_collection, order)
            /\ Respond("list_all", teacher_username, -1, None, 200,
                       [i \in 1..Len(announcements_collection) |->
                          Response(announcements_collection[order[i]])])
  /\ UNCHANGED <<announcements_collection, nextId>>

\* AnnouncementDoc with start_date stored whether or not one was given.
AnnouncementDoc_AlwaysStart(message, expiration_date, teacher_username, start_date) ==
  [message |-> message, expiration_date |-> expiration_date,
   created_by |-> teacher_username, start_date |-> start_date]

\* The document create_announcement inserts.
AnnouncementDoc(message, expiration_date, teacher_username, start_date) ==
  LET announcement_doc ==
        [message |-> message, expiration_date |-> expiration_date,
         created_by |-> teacher_username]
  IN IF Truthy(start_date)
     THEN announcement_doc @@ ("start_date" :> start_date)
     ELSE announcement_doc

\* The content of a record that C9 speaks of.
Content(message, start_date, expiration_date) ==
  <<message, IF Truthy(start_date) THEN start_date ELSE None,
    expiration_date>>

create_announcement(message, expiration_date, teacher_username, start_date) ==
  IF ~Authenticated(teacher_username)
  THEN /\ Respond("create", teacher_username, -1, None, 401,
                  "Authentication required")
       /\ UNCHANGED <<announcements_collection, nextId>>
  ELSE IF ~DatesOk(expiration_date, start_date)
  THEN /\ Respond("create", teacher_username, -1, None, 400,
                  "Invalid date format. Use YYYY-MM-DD")
       /\ UNCHANGED <<announcements_collection, nextId>>
  ELSE /\ nextId <= MaxCreates
       /\ announcements_collection' =
            InsertOne(announcements_collection,
                      AnnouncementDoc(message, expiration_date,
                                      teacher_username, start_date),
                      nextId)
       /\ nextId' = nextId + 1
       /\ Respond("create", teacher_username, StrOfId(nextId), None, 200,
                  [id |-> StrOfId(nextId), message |-> message,
                   start_date |-> start_date,
                   expiration_date |-> expiration_date,
                   created_by |-> teacher_username])

\* UpdateCheck with the announcement id looked at before the teacher.
UpdateCheck_IdFirst(coll, announcement_id, expiration_date, teacher_username, start_date) ==
  IF ~ObjectIdOk(announcement_id) THEN 400
  ELSE IF ~Authenticated(teacher_username) THEN 401
  ELSE IF FindIndex(coll, ObjectId(announcement_id)) = 0 THEN 404
  ELSE IF ~DatesOk(expiration_date, start_date) THEN 400
  ELSE 0

\* update_announcement up to its first write: the status it raises, 0 when
\* it goes on to write.
UpdateCheck(coll, announcement_id, expiration_date, teacher_username, start_date) ==
  IF ~Authenticated(teacher_username) THEN 401
  ELSE IF ~ObjectIdOk(announcement_id) THEN 400
  ELSE IF FindIndex(coll, ObjectId(announcement_id)) = 0 THEN 404
  ELSE IF ~DatesOk(expiration_date, start_date) THEN 400
  ELSE 0

UpdateDetail(coll, announcement_id, teacher_username) ==
  IF ~Authenticated(teacher_username) THEN "Authentication required"
  ELSE IF ~ObjectIdOk(announcement_id) THEN "Invalid announcement ID"
  ELSE IF FindIndex(coll, ObjectId(announcement_id)) = 0
  THEN "Announcement not found"
  ELSE "Invalid date format. Use YYYY-MM-DD"

\* update_doc, the fields of the final $set.
UpdateDoc(message, expiration_date, start_date) ==
  LET update_doc ==
        [message |-> message, expiration_date |-> expiration_date]
  IN IF Truthy(start_date)
     THEN update_doc @@ ("start_date" :> start_date)
     ELSE update_doc

\* The collection after the write that comes before the $set: the $unset of
\* start_date when none was given.
AfterUnset(coll, oid, start_date) ==
  IF Truthy(start_date) THEN coll
  ELSE UpdateOneUnset(coll, oid, "start_date").coll

\* The final check on the result of the $set raises the 500.
UpdateFailed(result) ==
  result.modified_count = 0 /\ result.matched_count = 0

\* The answer of update_announcement after its $set.
UpdateRespond(result, announcement_id, message, expiration_date, teacher_username, start_date, announcement) ==
  IF UpdateFailed(result)
  THEN Respond("update", teacher_username, announcement_id, None, 500,
               "Failed to update announcement")
  ELSE Respond("update", teacher_username, announcement_id, None, 200,
               [id |-> announcement_id, message |-> message,
                start_date |-> start_date,
                expiration_date |-> expiration_date,
                created_by |-> Get(announcement, "created_by")])

\* Of the dict find_one returned, the handler reads created_by and nothing
\* else (line 193); the dict is its own and no other request changes it.
Found(announcement) ==
  [k \in DOMAIN announcement \cap {"created_by"} |-> announcement[k]]

\* update_announcement, lines 137-171, when a worker is free: the request
\* is refused, or its find_one returned the announcement and it goes on to
\* its writes.  The checks around the find_one touch nothing shared.
update_announcement_find(announcement_id, message, expiration_date, teacher_username, start_date) ==
  LET coll == announcements_collection
      status == UpdateCheck(coll, announcement_id, expiration_date,
                            teacher_username, start_date)
  IN /\ BagCardinality(upd) < NumProcs
     /\ IF status # 0
        THEN /\ Respond("update", teacher_username, announcement_id, None,
                        status,
                        UpdateDetail(coll, announcement_id, teacher_username))
             /\ UNCHANGED upd
        ELSE /\ upd' = upd (+) SetToBag({
                   InFlight(IF Truthy(start_date) THEN "set" ELSE "unset",
                            announcement_id, message, expiration_date,
                            teacher_username, start_date,
                            Found(coll[FindIndex(coll,
                                                 ObjectId(announcement_id))]))})
             /\ last' = NoRequest
     /\ UNCHANGED <<announcements_collection, nextId>>

\* update_announcement, lines 172-177: the $unset of the request r, which
\* gave no start_date.
update_announcement_unset(r) ==
  /\ BagIn(r, upd)
  /\ r.pc = "unset"
  /\ announcements_collection' =
       AfterUnset(announcements_collection, ObjectId(r.id), r.start_date)
  /\ upd' = (upd (-) SetToBag({r})) (+) SetToBag({[r EXCEPT !.pc = "set"]})
  /\ last' = NoRequest
  /\ UNCHANGED nextId

\* update_announcement, lines 179-194: the $set of the request r, the
\* check of its result and the answer.
update_announcement_set(r) ==
  /\ BagIn(r, upd)
  /\ r.pc = "set"
  /\ LET result == UpdateOneSet(announcements_collection, ObjectId(r.id),
                                UpdateDoc(r.message, r.expiration_date,
                                          r.start_date))
     IN /\ announcements_collection' = result.coll
        /\ UpdateRespond(result, r.id, r.message, r.expiration_date,
                         r.teacher, r.start_date, r.announcement)
  /\ upd' = upd (-) SetToBag({r})
  /\ UNCHANGED nextId

delete_announcement(announcement_id, teacher_username) ==
  IF ~Authenticated(teacher_username)
  THEN /\ Respond("delete", teacher_username, announcement_id, None, 401,
                  "Authentication required")
       /\ UNCHANGED <<announcements_collection, nextId>>
  ELSE IF ~ObjectIdOk(announcement_id)
  THEN /\ Respond("delete", teacher_username, announcement_id, None, 400,
                  "Invalid announcement ID")
       /\ UNCHANGED <<announcements_collection, nextId>>
  ELSE LET result == DeleteOne(announcements_collection,
                               ObjectId(announcement_id))
       IN /\ announcements_collection' = result.coll
          /\ IF result.deleted_count = 0
             THEN Respond("delete", teacher_username, announcement_id, None,
                          404, "Announcement not found")
             ELSE Respond("delete", teacher_username, announcement_id, None,
                          200,
                          [message |-> "Announcement deleted successfully"])
          /\ UNCHANGED nextId

\* ------------------------------------------------------------- requests

ListActive ==
  /\ \E today \in Todays : get_announcements(today)
  /\ UNCHANGED <<upd, serial>>

ListAll ==
  /\ \E t \in TeacherInputs : get_all_announcements(t)
  /\ UNCHANGED <<upd, serial>>

Create ==
  /\ \E m \in CreateMessages, d \in CreateDateInputs,
        t \in CreateTeacherInputs :
       create_announcement(m, d[1], t, d[2])
  /\ UNCHANGED <<upd, serial>>

UpdateFind ==
  /\ \E r \in IdTeacherInputs, m \in UpdateMessages,
        d \in UpdateDateInputs :
       update_announcement_find(r[1], m, d[1], r[2], d[2])
  /\ UNCHANGED serial

UpdateUnset ==
  /\ \E r \in BagToSet(upd) : update_announcement_unset(r)
  /\ UNCHANGED serial

UpdateSet ==
  /\ \E r \in BagToSet(upd) : update_announcement_set(r)
  /\ UNCHANGED serial

Delete ==
  /\ \E r \in IdTeacherInputs : delete_announcement(r[1], r[2])
  /\ UNCHANGED <<upd, serial>>

Next ==
  \/ ListActive
  \/ ListAll
  \/ Create
  \/ UpdateFind
  \/ UpdateUnset
  \/ UpdateSet
  \/ Delete

Spec == Init /\ [][Next]_vars

\* ------------------------------------------- requests on one announcement
\* One announcement is created, and the requests that follow are about it.
\* serial collects, for each id, the contents that the create and the
\* complete updates requested so far give its record.

CTeacher == "t1"

\* The two update requests: one gives no start_date, one gives one.
CUpdates ==
  { [message |-> "M2", start_date |-> None],
    [message |-> "M1", start_date |-> June01] }

CCreate ==
  /\ nextId = 1
  /\ \E s \in {None, June01} :
       /\ create_announcement("M1", June01, CTeacher, s)
       /\ serial' = serial \cup {<<nextId, Content("M1", s, June01)>>}
  /\ UNCHANGED upd

CListAll ==
  /\ get_all_announcements(CTeacher)
  /\ UNCHANGED <<upd, serial>>

CDelete ==
  /\ nextId > 1
  /\ delete_announcement(1, CTeacher)
  /\ UNCHANGED <<upd, serial>>

CUpdateFind ==
  \E u \in CUpdates :
    /\ update_announcement_find(1, u.message, June30, CTeacher,
                                u.start_date)
    /\ serial' =
         IF upd' = upd THEN serial
         ELSE serial \cup
                {<<ObjectId(1), Content(u.message, u.start_date, June30)>>}

CUpdateUnset ==
  /\ \E r \in BagToSet(upd) : update_announcement_unset(r)
  /\ UNCHANGED serial

CUpdateSet ==
  /\ \E r \in BagToSet(upd) : update_announcement_set(r)
  /\ UNCHANGED serial

NextC ==
  \/ CCreate
  \/ CListAll
  \/ CDelete
  \/ CUpdateFind
  \/ CUpdateUnset
  \/ CUpdateSet

SpecC == Init /\ [][NextC]_vars

\* ---------------------------------------------------------------- claims

\* Python's a <= b on str.
StrLeq(a, b) == a = b \/ Less[a, b]

\* The ids of the stored documents, and the stored document of an id.
Ids(coll) == {coll[i]["_id"] : i \in 1..Len(coll)}
DocOf(coll, oid) == coll[FindIndex(coll, oid)]
Elems(seq) == {seq[k] : k \in 1..Len(seq)}

KnownTeacher(t) == t \in teachers_collection

\* C1: list_active returns exactly the stored announcements for which
\* (start_date is absent or today >= start_date) and today <=
\* expiration_date, each once, and leaves the store unchanged.
C1_ListActiveExact ==
  [][last'.op = "list_active" =>
       LET coll == announcements_collection
           today == last'.today
           body == last'.body
           active ==
             {i \in 1..Len(coll) :
                /\ \/ "start_date" \notin DOMAIN coll[i]
                   \/ StrLeq(coll[i]["start_date"], today)
                /\ StrLeq(today, coll[i]["expiration_date"])}
       IN /\ last'.status = 200
          /\ announcements_collection' = coll
          /\ Len(body) = Cardinality(active)
          /\ Elems(body) = {Response(coll[i]) : i \in active}]_vars

\* C1 witness: of two stored announcements, list_active returned the one
\* with no start_date that has not expired and left out the one whose
\* start_date is after today, though it has not expired.
C1_Witness ==
  /\ last.op = "list_active"
  /\ Len(announcements_collection) = 2
  /\ Len(last.body) = 1
  /\ last.body[1].start_date = None
  /\ \E i \in 1..2 :
       LET a == announcements_collection[i]
       IN /\ "start_date" \in DOMAIN a
          /\ StrLess(last.today, a["start_date"])
          /\ StrLeq(last.today, a["expiration_date"])

\* C2: for a known teacher list_all returns every stored announcement
\* exactly once, in non-increasing order of expiration_date, and leaves the
\* store unchanged.
C2_ListAllSorted ==
  [][(last'.op = "list_all" /\ KnownTeacher(last'.teacher)) =>
       LET coll == announcements_collection
           body == last'.body
       IN /\ last'.status = 200
          /\ announcements_collection' = coll
          /\ Len(body) = Len(coll)
          /\ Cardinality({body[k].id : k \in 1..Len(body)}) = Len(body)
          /\ Elems(body) = {Response(coll[i]) : i \in 1..Len(coll)}
          /\ \A k, l \in 1..Len(body) :
               k < l => StrLeq(body[l].expiration_date,
                               body[k].expiration_date)]_vars

\* C2 witness: list_all returned two announcements, the later one first
\* because it expires later; the other one expired on the day the first
\* starts.
C2_Witness ==
  /\ last.op = "list_all"
  /\ last.status = 200
  /\ Len(last.body) = 2
  /\ last.body[1].id = 2
  /\ last.body[1].start_date = June01
  /\ last.body[2].expiration_date = June01
  /\ StrLess(last.body[2].expiration_date, last.body[1].expiration_date)

\* C3: after a successful update with valid dates the stored record has
\* the given message and expiration_date, and its start_date is the given
\* one, or is absent when none was given.
C3_UpdateStored ==
  (/\ last.op = "update"
   /\ last.status = 200
   /\ StrptimeOk(last.body.expiration_date)
   /\ last.body.start_date = None \/ StrptimeOk(last.body.start_date))
  => LET i == FindIndex(announcements_collection, ObjectId(last.id))
         a == announcements_collection[i]
     IN /\ i # 0
        /\ a["message"] = last.body.message
        /\ a["expiration_date"] = last.body.expiration_date
        /\ IF last.body.start_date = None
           THEN "start_date" \notin DOMAIN a
           ELSE /\ "start_date" \in DOMAIN a
                /\ a["start_date"] = last.body.start_date

\* C4: a successful create adds exactly one record, under an id no other
\* record holds, with the given message and expiration_date, created_by
\* the teacher, and a start_date field only when one was given; the records
\* stored before are unchanged.
C4_CreateAddsOne ==
  [][(last'.op = "create" /\ last'.status = 200) =>
       LET coll == announcements_collection
           after == announcements_collection'
           body == last'.body
           new == after[Len(after)]
       IN /\ Len(after) = Len(coll) + 1
          /\ \A i \in 1..Len(coll) : after[i] = coll[i]
          /\ new["_id"] \notin Ids(coll)
          /\ Cardinality(Ids(after)) = Len(after)
          /\ StrOfId(new["_id"]) = body.id
          /\ new["message"] = body.message
          /\ new["expiration_date"] = body.expiration_date
          /\ new["created_by"] = last'.teacher
          /\ KnownTeacher(last'.teacher)
          /\ "start_date" \in DOMAIN new =>
               (body.start_date # None /\ new["start_date"] = body.start_date)
          /\ (body.start_date # None /\ StrptimeOk(body.start_date)) =>
               "start_date" \in DOMAIN new
          /\ DOMAIN new \subseteq
               {"_id", "message", "expiration_date", "created_by",
                "start_date"}]_vars

\* C4 witness: a second announcement was created with no start_date, and
\* is stored without the field.
C4_Witness ==
  /\ last.op = "create"
  /\ last.status = 200
  /\ Len(announcements_collection) = 2
  /\ last.body.start_date = None
  /\ "start_date" \notin DOMAIN announcements_collection[2]
  /\ "start_date" \in DOMAIN announcements_collection[1]

\* C5: created_by of a stored announcement is the teacher of the create
\* that stored it and never changes afterwards; the response of an update
\* carries the created_by the record had.
C5_CreatedByKept ==
  [][LET coll == announcements_collection
         after == announcements_collection'
     IN /\ \/ after = coll
           \/ \A i \in 1..Len(after) :
                LET j == FindIndex(coll, after[i]["_id"])
                IN IF j # 0
                   THEN Get(after[i], "created_by")
                          = Get(coll[j], "created_by")
                   ELSE /\ last'.op = "create"
                        /\ Get(after[i], "created_by") = last'.teacher
        /\ (last'.op = "update" /\ last'.status = 200) =>
             LET j == FindIndex(coll, ObjectId(last'.id))
             IN /\ j # 0
                /\ last'.body.created_by = coll[j]["created_by"]]_vars

\* C5 witness: a teacher updated an announcement that another teacher
\* created, and the record is still the creator's.
C5_Witness ==
  /\ last.op = "update"
  /\ last.status = 200
  /\ last.teacher = "t1"
  /\ last.body.created_by = "t2"
  /\ DocOf(announcements_collection, ObjectId(last.id))["created_by"] = "t2"

\* C6: with a teacher_username that is not in the directory, list_all,
\* create, update and delete answer 401 whatever the other arguments are,
\* and the store is unchanged; list_active asks for no teacher.
C6_Unauthorized ==
  [][/\ (/\ last'.op \in {"list_all", "create", "update", "delete"}
         /\ ~KnownTeacher(last'.teacher))
        => /\ last'.status = 401
           /\ announcements_collection' = announcements_collection
           /\ nextId' = nextId
     /\ last'.op = "list_active" => last'.status = 200]_vars

\* C6 witness: an update by an unknown teacher with a malformed id was
\* answered 401.
C6_Witness ==
  /\ last.op = "update"
  /\ last.teacher = "nobody"
  /\ last.id = 0
  /\ last.status = 401

\* C7: a delete by a known teacher of a well-formed id with no record
\* answers 404 and changes nothing; a successful delete removes that record
\* and no other; the id of a removed record never has a record again, so
\* deletes and updates that come later (an update comes later when its
\* existence check does) answer 404 and no list returns it.
C7_DeletePermanent ==
  [][LET coll == announcements_collection
         after == announcements_collection'
         oid == ObjectId(last'.id)
         absent == /\ last'.op \in {"delete", "update"}
                   /\ upd' = upd
                   /\ KnownTeacher(last'.teacher)
                   /\ ObjectIdOk(last'.id)
                   /\ FindIndex(coll, oid) = 0
     IN /\ absent => (last'.status = 404 /\ after = coll)
        /\ (last'.op = "delete" /\ last'.status = 200) =>
             /\ FindIndex(coll, oid) # 0
             /\ Len(after) = Len(coll) - 1
             /\ Ids(after) = Ids(coll) \ {oid}
             /\ \A i \in 1..Len(after) : after[i] = DocOf(coll, after[i]["_id"])
        /\ \/ after = coll
           \/ \A n \in 1..(nextId - 1) :
                n \notin Ids(coll) => n \notin Ids(after)
        /\ (last'.op \in {"list_active", "list_all"} /\ last'.status = 200) =>
             \A k \in 1..Len(last'.body) :
               ObjectId(last'.body[k].id) \in Ids(coll)]_vars

\* C7 witness: the delete of an id whose record was removed before was
\* answered 404.
C7_Witness ==
  /\ last.op = "delete"
  /\ last.status = 404
  /\ KnownTeacher(last.teacher)
  /\ last.id >= 1
  /\ last.id < nextId

\* Every stored expiration_date parses, and every stored start_date does.
StoredDatesParse ==
  \A i \in 1..Len(announcements_collection) :
    LET a == announcements_collection[i]
    IN /\ "expiration_date" \in DOMAIN a
       /\ StrptimeOk(a["expiration_date"])
       /\ "start_date" \in DOMAIN a => StrptimeOk(a["start_date"])

\* C8: every stored expiration_date is a valid date and every stored
\* start_date is absent or a valid date, and no create or update succeeds
\* with an expiration_date or a given start_date that is malformed.
C8_DatesValidated ==
  /\ StoredDatesParse
  /\ (last.op \in {"create", "update"} /\ last.status = 200) =>
       /\ StrptimeOk(last.body.expiration_date)
       /\ last.body.start_date = None \/ StrptimeOk(last.body.start_date)

\* C9: every stored record, and every record a list returned, has the
\* content (message, start_date, expiration_date) that its create or one
\* complete update of it gives it.
C9_NoTornRecord ==
  /\ \A i \in 1..Len(announcements_collection) :
       LET a == announcements_collection[i]
       IN <<a["_id"], Content(a["message"], Get(a, "start_date"),
                              a["expiration_date"])>> \in serial
  /\ (last.op = "list_all" /\ last.status = 200) =>
       \A k \in 1..Len(last.body) :
         LET r == last.body[k]
         IN <<ObjectId(r.id), Content(r.message, r.start_date,
                                      r.expiration_date)>> \in serial

\* C10: no update whose find_one found the record answers 500, delete
\* requests for its id running at the same time or not.  (Only an update
\* whose find_one found the record reaches the 500.)
C10_NeverInternalError ==
  ~(last.op = "update" /\ last.status = 500)

\* What the code does in place of C10: the $set of an update whose find_one
\* found the record answers 500 exactly when the record is no longer
\* stored, a delete having removed it since.
InternalErrorIffDeleted ==
  [][\A r \in BagToSet(upd) :
       (r.pc = "set" /\ upd' = upd (-) SetToBag({r})) =>
         /\ last'.op = "update"
         /\ last'.status \in {200, 500}
         /\ last'.status = 500 <=>
              FindIndex(announcements_collection, ObjectId(r.id)) = 0]_vars

====
